---- MODULE Spec2Model ----
(***************************************************************************)
(* Model of the two command-line scripts of the repository:                *)
(*   server/astrology_engine.py  (chart data extractor)                    *)
(*   server/chart_visualizer.py  (chart SVG renderer)                      *)
(* The ephemeris libraries (immanuel, kerykeion) are the environment: what *)
(* they return, write or raise is chosen nondeterministically from bounded *)
(* sets; everything the scripts do with it is translated from the source.  *)
(***************************************************************************)
EXTENDS Integers, Sequences, FiniteSets, TLC

VARIABLES
    e_pc,        \* extractor process: "start", "exited"
    e_argc,      \* extractor: number of positional arguments, len(sys.argv) - 1
    e_date,      \* extractor: the date argument
    natal,       \* extractor: what the library did during calculate_chart
    e_result,    \* extractor: the values calculate_chart returned (<<>> before the call)
    e_stdout,    \* extractor: the documents printed to standard output
    e_stderr,    \* extractor: the documents printed to standard error
    e_exit,      \* extractor: process exit code (-1 while running)
    dirs,        \* file system: the directories that exist
    files,       \* file system: path -> content of the files that exist
    naming,      \* the file name the installed library gives a natal chart
    r_pc,        \* renderer invocation -> its position in the code
    r_argc,      \* renderer invocation -> number of positional arguments
    r_idx,       \* renderer invocation -> index of the loop over possible_filenames
    r_svg_path,  \* renderer invocation -> local svg_path (<<>> for None)
    r_content,   \* renderer invocation -> local svg_content
    r_result,    \* renderer invocation -> values generate_birth_chart_svg returned
    r_stdout,    \* renderer invocation -> documents printed to standard output
    r_exit,      \* renderer invocation -> process exit code (-1 while running)
    lib_did,     \* renderer invocation -> what its makeSVG call did
    stale,       \* history: the files present before any invocation started
    overlap      \* history: the two invocations were in progress at the same time

e_vars == <<e_pc, e_argc, e_date, natal, e_result, e_stdout, e_stderr, e_exit>>

fs_vars == <<dirs, files>>

r_vars ==
    <<dirs, files, naming, r_pc, r_argc, r_idx, r_svg_path, r_content, r_result,
      r_stdout, r_exit, lib_did, stale, overlap>>

vars == <<e_vars, r_vars>>

(***************************************************************************)
(* Bounds of the model                                                     *)
(***************************************************************************)
\* total number of items (objects + houses + aspects) in one library chart
MaxItems == 2
\* largest orb, in degrees, an aspect of the library chart carries
MaxOrb == 5
\* largest number of positional arguments a command line carries
MaxArgc == 5

(***************************************************************************)
(* Python values                                                           *)
(***************************************************************************)
None == "None"

\* hasattr(x, attr) is False
NoAttr == "<no attribute>"

\* the attribute is there but reading .name on it raises AttributeError
NoName == "<no name>"

(***************************************************************************)
(* Inputs: command line and library chart                                  *)
(***************************************************************************)
DateStrs == {"1990-05-15", "not-a-date"}

\* datetime.strptime(f"{date_str} {time_str}", "%Y-%m-%d %H:%M") succeeds
strptime_ok(date_str) == date_str = "1990-05-15"

ObjectNames == {"Sun", "Moon", "Ascendant"}

AspectPlanets == {"Sun", "Moon", "Mars", "Venus"}

\* signs the library reports in the model: one per element, all three
\* modalities, and one name outside the twelve of the lookup tables
SignsIn == {"Aries", "Taurus", "Gemini", "Cancer", "Ophiuchus"}

\* a celestial object of natal.objects; ok = FALSE: reading one of its
\* attributes raises
Objects ==
    [ok : {TRUE}, name : ObjectNames, sign : SignsIn, house : {None},
     degree : {15}, minute : {7}, retrograde : {FALSE}]
    \cup {[ok |-> FALSE, name |-> None, sign |-> None, house |-> None,
           degree |-> 0, minute |-> 0, retrograde |-> FALSE]}

Houses ==
    [ok : {TRUE}, number : {1, 2}, sign : {"Aries", "Ophiuchus"},
     degree : {3}, minute : {40}]
    \cup {[ok |-> FALSE, number |-> 0, sign |-> None, degree |-> 0, minute |-> 0]}

\* aspect.orb: absent, not convertible by float(), or a number of degrees
Orbs ==
    {[kind |-> "none", val |-> 0], [kind |-> "bad", val |-> 0]}
    \cup [kind : {"num"}, val : 0..MaxOrb]

\* an aspect joins two distinct bodies
AspectPairs ==
    {<<"Sun", "Moon">>, <<"Moon", "Mars">>, <<"Mars", "Venus">>}

Aspects ==
    {[active |-> p[1], passive |-> p[2], aspect |-> "Trine", orb |-> o,
      applying |-> NoAttr] : p \in AspectPairs, o \in Orbs}
    \cup {[active |-> NoAttr, passive |-> "Moon", aspect |-> "Trine",
           orb |-> [kind |-> "num", val |-> 1], applying |-> NoAttr],
          [active |-> "Sun", passive |-> NoAttr, aspect |-> "Trine",
           orb |-> [kind |-> "num", val |-> 1], applying |-> NoAttr],
          [active |-> "Sun", passive |-> "Moon", aspect |-> NoAttr,
           orb |-> [kind |-> "num", val |-> 1], applying |-> NoAttr],
          [active |-> NoName, passive |-> "Moon", aspect |-> "Trine",
           orb |-> [kind |-> "num", val |-> 1], applying |-> NoAttr]}

SeqsUpTo(S, n) == UNION {[1..k -> S] : k \in 0..n}

\* what charts.Subject / charts.Natal do for one call: raise, or return a
\* chart of at most MaxItems items; jsonable = FALSE: the copied library
\* values are objects json.dumps cannot serialise
Natals ==
    {[subject_ok |-> FALSE, natal_ok |-> FALSE, objects |-> <<>>,
      houses |-> <<>>, aspects |-> <<>>, jsonable |-> TRUE],
     [subject_ok |-> TRUE, natal_ok |-> FALSE, objects |-> <<>>,
      houses |-> <<>>, aspects |-> <<>>, jsonable |-> TRUE]}
    \cup
    UNION {UNION {
        [subject_ok : {TRUE}, natal_ok : {TRUE},
         objects : [1..no -> Objects],
         houses : [1..nh -> Houses],
         aspects : SeqsUpTo(Aspects, MaxItems - no - nh),
         jsonable : BOOLEAN]
        : nh \in 0..(MaxItems - no)} : no \in 0..MaxItems}

NoNatal ==
    [subject_ok |-> FALSE, natal_ok |-> FALSE, objects |-> <<>>,
     houses |-> <<>>, aspects |-> <<>>, jsonable |-> TRUE]

(***************************************************************************)
(* astrology_engine.py: calculate_chart                                    *)
(***************************************************************************)
\* a Python dict with key k set to v (insertion or overwrite)
Put(d, k, v) == [x \in (DOMAIN d) \cup {k} |-> IF x = k THEN v ELSE d[x]]

\* d.get(k, default)
Get(d, k, default) == IF k \in DOMAIN d THEN d[k] ELSE default

Take(s, n) == SubSeq(s, 1, IF Len(s) < n THEN Len(s) ELSE n)

\* variant: the error mapping keeps what was copied before the failure
ErrorResult_Partial(e, chart_data) ==
    [error |-> e, planets |-> chart_data.planets, houses |-> chart_data.houses]

\* the except clause of calculate_chart: {"error": str(e)}; the chart_data
\* built so far is dropped
ErrorResult(e, chart_data) == [error |-> e]

\* the chart_data literal of the try block
EmptyChart(date_str, time_str, latitude, longitude) ==
    [bigThree |-> [sunSign |-> None, moonSign |-> None, risingSign |-> None],
     lunarNodes |-> [northNode |-> None, southNode |-> None],
     planets |-> <<>>,
     houses |-> <<>>,
     aspects |-> <<>>,
     chartInfo |-> [date |-> date_str, time |-> time_str,
                    location |-> <<latitude, longitude>>]]

\* one pass of the loop over natal.objects.items()
PlanetStep(chart_data, obj) ==
    LET planet_name == obj.name
        sign_name == obj.sign
        planet_data ==
            [sign |-> sign_name, house |-> obj.house, degree |-> obj.degree,
             minute |-> obj.minute,
             formatted |-> <<obj.degree, obj.minute, sign_name>>,
             retrograde |-> obj.retrograde]
        bigThree ==
            IF planet_name = "Sun"
            THEN [chart_data.bigThree EXCEPT !.sunSign = sign_name]
            ELSE IF planet_name = "Moon"
            THEN [chart_data.bigThree EXCEPT !.moonSign = sign_name]
            ELSE IF planet_name = "Ascendant"
            THEN [chart_data.bigThree EXCEPT !.risingSign = sign_name]
            ELSE chart_data.bigThree
    IN [chart_data EXCEPT !.planets = Put(@, planet_name, planet_data),
                          !.bigThree = bigThree]

RECURSIVE ExtractPlanets(_, _, _)
ExtractPlanets(objs, i, chart_data) ==
    IF i > Len(objs) THEN chart_data
    ELSE ExtractPlanets(objs, i + 1, PlanetStep(chart_data, objs[i]))

ExtractLunarNodes(chart_data) ==
    LET north ==
            IF "True North Node" \in DOMAIN chart_data.planets
            THEN chart_data.planets["True North Node"].sign
            ELSE chart_data.lunarNodes.northNode
        south ==
            IF "True South Node" \in DOMAIN chart_data.planets
            THEN chart_data.planets["True South Node"].sign
            ELSE chart_data.lunarNodes.southNode
    IN [chart_data EXCEPT !.lunarNodes = [northNode |-> north, southNode |-> south]]

RECURSIVE ExtractHouses(_, _, _)
ExtractHouses(hs, i, chart_data) ==
    IF i > Len(hs) THEN chart_data
    ELSE ExtractHouses(hs, i + 1,
            [chart_data EXCEPT !.houses =
                Put(@, hs[i].number,
                    [sign |-> hs[i].sign, degree |-> hs[i].degree,
                     minute |-> hs[i].minute])])

\* rising sign taken from the first house when no Ascendant object set it
RisingFallback(chart_data) ==
    IF chart_data.bigThree.risingSign = None /\ 1 \in DOMAIN chart_data.houses
    THEN [chart_data EXCEPT !.bigThree.risingSign = chart_data.houses[1].sign]
    ELSE chart_data

\* variant: strict comparisons at the two thresholds
Strength_Strict(orb_value) ==
    IF orb_value < 2 THEN "strong" ELSE IF orb_value < 4 THEN "moderate" ELSE "weak"

\* "strong" if orb_value <= 2 else "moderate" if orb_value <= 4 else "weak"
Strength(orb_value) ==
    IF orb_value <= 2 THEN "strong" ELSE IF orb_value <= 4 THEN "moderate" ELSE "weak"

\* variant: an orb that float() rejects does not end the pass
AspectRaises_OrbIgnored(aspect) ==
    aspect.active = NoName \/ aspect.passive = NoName \/ aspect.aspect = NoName

\* the body of the try of the aspect loop raises (float(aspect.orb), or .name
\* of active, passive or aspect)
AspectRaises(aspect) ==
    \/ aspect.orb.kind = "bad"
    \/ aspect.active = NoName \/ aspect.passive = NoName \/ aspect.aspect = NoName

\* one pass of the loop over natal.aspects: the list after it
AspectStep(aspects, aspect) ==
    IF aspect.active # NoAttr /\ aspect.passive # NoAttr /\ aspect.aspect # NoAttr
    THEN IF AspectRaises(aspect)
         THEN aspects
         ELSE LET orb_value == IF aspect.orb.kind # "none" THEN aspect.orb.val ELSE 0
              IN Append(aspects,
                    [planet1 |-> aspect.active,
                     planet2 |-> aspect.passive,
                     aspect |-> aspect.aspect,
                     orb |-> orb_value,
                     applying |-> IF aspect.applying # NoAttr
                                  THEN aspect.applying = "yes" ELSE FALSE,
                     strength |-> Strength(orb_value)])
    ELSE aspects

RECURSIVE ExtractAspects(_, _, _)
ExtractAspects(as, i, aspects) ==
    IF i > Len(as) THEN aspects
    ELSE ExtractAspects(as, i + 1, AspectStep(aspects, as[i]))

\* variant: a table that lacks one sign
element_map_NoCancer ==
    ("Aries" :> "fire" @@ "Leo" :> "fire" @@ "Sagittarius" :> "fire" @@
     "Taurus" :> "earth" @@ "Virgo" :> "earth" @@ "Capricorn" :> "earth" @@
     "Gemini" :> "air" @@ "Libra" :> "air" @@ "Aquarius" :> "air" @@
     "Scorpio" :> "water" @@ "Pisces" :> "water")

\* the two lookup tables of calculate_chart
element_map ==
    ("Aries" :> "fire" @@ "Leo" :> "fire" @@ "Sagittarius" :> "fire" @@
     "Taurus" :> "earth" @@ "Virgo" :> "earth" @@ "Capricorn" :> "earth" @@
     "Gemini" :> "air" @@ "Libra" :> "air" @@ "Aquarius" :> "air" @@
     "Cancer" :> "water" @@ "Scorpio" :> "water" @@ "Pisces" :> "water")

modality_map ==
    ("Aries" :> "cardinal" @@ "Cancer" :> "cardinal" @@ "Libra" :> "cardinal" @@
     "Capricorn" :> "cardinal" @@
     "Taurus" :> "fixed" @@ "Leo" :> "fixed" @@ "Scorpio" :> "fixed" @@
     "Aquarius" :> "fixed" @@
     "Gemini" :> "mutable" @@ "Virgo" :> "mutable" @@ "Sagittarius" :> "mutable" @@
     "Pisces" :> "mutable")

\* the counting loop over chart_data["planets"].values(), for one table
BalanceCounts(planets, table, buckets) ==
    [b \in buckets |->
        Cardinality({n \in DOMAIN planets :
            planets[n].sign \in DOMAIN table /\ table[planets[n].sign] = b})]

element_counts(planets) ==
    BalanceCounts(planets, element_map, {"fire", "earth", "air", "water"})

modality_counts(planets) ==
    BalanceCounts(planets, modality_map, {"cardinal", "fixed", "mutable"})

\* variant: every aspect scores the same
AspectScore_Flat(strength) == 1

\* score = 3 if strong else 2 if moderate else 1
AspectScore(strength) ==
    IF strength = "strong" THEN 3 ELSE IF strength = "moderate" THEN 2 ELSE 1

\* planet_scores[k] = planet_scores.get(k, 0) + score; keys keeps the order
\* in which the dict received its keys
AddScore(planet_scores, k, score) ==
    [keys |-> IF k \in DOMAIN planet_scores.score
              THEN planet_scores.keys ELSE Append(planet_scores.keys, k),
     score |-> Put(planet_scores.score, k, Get(planet_scores.score, k, 0) + score)]

RECURSIVE ScorePlanets(_, _, _)
ScorePlanets(aspects, i, planet_scores) ==
    IF i > Len(aspects) THEN planet_scores
    ELSE LET score == AspectScore(aspects[i].strength)
         IN ScorePlanets(aspects, i + 1,
                AddScore(AddScore(planet_scores, aspects[i].planet1, score),
                         aspects[i].planet2, score))

\* max(planet_scores.keys(), key=...): the first key, in iteration order,
\* that no other key beats
MaxKey(planet_scores) ==
    LET ks == planet_scores.keys
        best == CHOOSE i \in 1..Len(ks) :
                    /\ \A j \in 1..Len(ks) :
                          planet_scores.score[ks[j]] <= planet_scores.score[ks[i]]
                    /\ \A j \in 1..(i - 1) :
                          planet_scores.score[ks[j]] < planet_scores.score[ks[i]]
    IN ks[best]

dominantPlanet(aspects) ==
    LET planet_scores == ScorePlanets(aspects, 1, [keys |-> <<>>, score |-> <<>>])
    IN IF planet_scores.keys # <<>> THEN MaxKey(planet_scores) ELSE "Sun"

sun_themes ==
    ("Aries" :> <<"Leadership", "Initiative", "Independence">> @@
     "Taurus" :> <<"Stability", "Sensuality", "Persistence">> @@
     "Gemini" :> <<"Communication", "Adaptability", "Learning">> @@
     "Cancer" :> <<"Nurturing", "Emotional depth", "Protection">> @@
     "Leo" :> <<"Creativity", "Self-expression", "Recognition">> @@
     "Virgo" :> <<"Service", "Perfectionism", "Analysis">> @@
     "Libra" :> <<"Balance", "Relationships", "Harmony">> @@
     "Scorpio" :> <<"Transformation", "Intensity", "Depth">> @@
     "Sagittarius" :> <<"Philosophy", "Adventure", "Growth">> @@
     "Capricorn" :> <<"Achievement", "Structure", "Authority">> @@
     "Aquarius" :> <<"Innovation", "Humanitarianism", "Independence">> @@
     "Pisces" :> <<"Spirituality", "Compassion", "Intuition">>)

lifeThemes(sunSign) ==
    Take(IF sunSign \in DOMAIN sun_themes THEN sun_themes[sunSign] ELSE <<>>, 8)

\* calculate_chart(date_str, time_str, latitude, longitude), lib being what
\* the library does during the call
calculate_chart(date_str, time_str, latitude, longitude, lib) ==
    LET empty == EmptyChart(date_str, time_str, latitude, longitude)
        withPlanets == ExtractLunarNodes(ExtractPlanets(lib.objects, 1, empty))
        withHouses == RisingFallback(ExtractHouses(lib.houses, 1, withPlanets))
        aspects == ExtractAspects(lib.aspects, 1, <<>>)
    IN  IF ~strptime_ok(date_str) THEN ErrorResult("strptime", empty)
        ELSE IF ~lib.subject_ok THEN ErrorResult("Subject", empty)
        ELSE IF ~lib.natal_ok THEN ErrorResult("Natal", empty)
        ELSE IF \E i \in DOMAIN lib.objects : ~lib.objects[i].ok
        THEN ErrorResult("object",
                ExtractPlanets(SubSeq(lib.objects, 1,
                    (CHOOSE i \in DOMAIN lib.objects :
                        /\ ~lib.objects[i].ok
                        /\ \A j \in 1..(i - 1) : lib.objects[j].ok) - 1), 1, empty))
        ELSE IF \E i \in DOMAIN lib.houses : ~lib.houses[i].ok
        THEN ErrorResult("house", withPlanets)
        ELSE [bigThree |-> withHouses.bigThree,
              lunarNodes |-> withHouses.lunarNodes,
              planets |-> withHouses.planets,
              houses |-> withHouses.houses,
              aspects |-> aspects,
              chartInfo |-> withHouses.chartInfo,
              elementBalance |-> element_counts(withHouses.planets),
              modalityBalance |-> modality_counts(withHouses.planets),
              dominantPlanet |-> dominantPlanet(aspects),
              lifeThemes |-> lifeThemes(withHouses.bigThree.sunSign)]

(***************************************************************************)
(* astrology_engine.py: main                                               *)
(***************************************************************************)
\* json.dumps(result) returns: an error mapping holds one string; a chart is
\* serialisable when the library values copied into it are
Serializable(result, lib) ==
    \/ "error" \in DOMAIN result
    \/ lib.jsonable
    \/ (result.planets = <<>> /\ result.houses = <<>> /\ result.aspects = <<>>)

\* variant: only too few arguments are refused
WrongArgCount_TooFewOnly(argc) == argc + 1 < 5

\* len(sys.argv) != 5, argc being the number of positional arguments
WrongArgCount(argc) == argc + 1 # 5

E_Init ==
    /\ e_pc = "start"
    /\ e_argc \in 0..MaxArgc
    /\ e_date \in DateStrs
    /\ natal = NoNatal
    /\ e_result = <<>>
    /\ e_stdout = <<>>
    /\ e_stderr = <<>>
    /\ e_exit = -1

\* the extractor is not run
E_Idle ==
    /\ e_pc = "idle"
    /\ e_argc = 0
    /\ e_date = "1990-05-15"
    /\ natal = NoNatal
    /\ e_result = <<>>
    /\ e_stdout = <<>>
    /\ e_stderr = <<>>
    /\ e_exit = -1

\* main() with len(sys.argv) != 5
MainUsage ==
    /\ e_pc = "start"
    /\ WrongArgCount(e_argc)
    /\ e_stdout' = Append(e_stdout, [error |-> "Usage"])
    /\ e_exit' = 1
    /\ e_pc' = "exited"
    /\ UNCHANGED <<e_argc, e_date, natal, e_result, e_stderr>>
    /\ UNCHANGED r_vars

\* main() with four arguments: the call of calculate_chart and the print
MainRun ==
    /\ e_pc = "start"
    /\ ~WrongArgCount(e_argc)
    /\ \E lib \in (IF strptime_ok(e_date) THEN Natals ELSE {NoNatal}) :
          LET result == calculate_chart(e_date, "14:30", "45.42", "-75.69", lib)
          IN /\ natal' = lib
             /\ e_result' = Append(e_result, result)
             /\ IF Serializable(result, lib)
                THEN /\ e_stdout' = Append(e_stdout, result)
                     /\ e_stderr' = e_stderr
                     /\ e_exit' = 0
                ELSE /\ e_stdout' = e_stdout
                     /\ e_stderr' = Append(e_stderr, [error |-> "Chart calculation failed"])
                     /\ e_exit' = 1
    /\ e_pc' = "exited"
    /\ UNCHANGED <<e_argc, e_date>>
    /\ UNCHANGED r_vars

NextChart == MainUsage \/ MainRun

(***************************************************************************)
(* chart_visualizer.py                                                     *)
(***************************************************************************)
\* the two concurrent invocations of the renderer
Invocations == {1, 2}

Other(p) == CHOOSE q \in Invocations : q # p

Temp == "temp_charts"

OutDir == "out"

NoPath == <<>>

NoInfo == <<>>

\* positional argument counts of the command lines of the model: too few,
\* the four required, plus a name, plus a name, a location and an output path
RenderArgcs == {3, 4, 5, 7}

\* main(): name = sys.argv[5] if len(sys.argv) > 5 else "Birth Chart"
name(argc) == IF argc + 1 > 5 THEN "Ada" ELSE "Birth Chart"

\* main(): output_path = sys.argv[7] if len(sys.argv) > 7 else None
output_path(argc) == IF argc + 1 > 7 THEN <<OutDir, "ada.svg">> ELSE NoPath

\* chart.output_directory: temp_dir if not output_path else dirname(output_path)
output_directory(argc) ==
    IF output_path(argc) = NoPath THEN Temp ELSE output_path(argc)[1]

\* variant: the name without prefix is tried first
possible_filenames_PlainFirst(nm) ==
    <<<<"", "Natal Chart.svg">>, <<nm, " - Natal Chart.svg">>,
      <<nm, "_Natal_Chart.svg">>, <<nm, " Natal Chart.svg">>>>

\* possible_filenames; a file name is <<prefix, fixed suffix>>
possible_filenames(nm) ==
    <<<<nm, " - Natal Chart.svg">>, <<nm, "_Natal_Chart.svg">>,
      <<nm, " Natal Chart.svg">>, <<"", "Natal Chart.svg">>>>

\* the naming conventions the installed library may have
Namings == {"dash", "plain", "other"}

\* the file name makeSVG writes for a chart called nm
LibFilename(nm) ==
    IF naming = "dash" THEN <<nm, " - Natal Chart.svg">>
    ELSE IF naming = "plain" THEN <<"", "Natal Chart.svg">>
    ELSE <<nm, "NatalChart.svg">>

\* the SVG document the library draws for invocation p
SvgOf(p) == IF p = 1 THEN "svg of invocation 1" ELSE "svg of invocation 2"

exists(path) == path \in DOMAIN files

listdir(d) == {path[2] : path \in {q \in DOMAIN files : q[1] = d}}

\* variant: the file is left in place
Remove_Nothing(f, path) == f

\* the file system after os.remove(path)
Remove(f, path) == [q \in (DOMAIN f) \ {path} |-> f[q]]

InProgress(p) == r_pc[p] \notin {"start", "exited"}

\* history of overlap, kept by every step of invocation p
Track(p) == overlap' = (overlap \/ InProgress(Other(p)))

\* initial file systems: temp_charts and the output directory exist or not;
\* temp_charts may hold a chart file an earlier run left behind
InitialFiles ==
    {<<>>, [q \in {<<Temp, <<"", "Natal Chart.svg">>>>} |-> "stale svg"]}

R_InitCommon ==
    /\ dirs \in SUBSET {Temp, OutDir}
    /\ files \in InitialFiles
    /\ \A q \in DOMAIN files : q[1] \in dirs
    /\ stale = files
    /\ naming \in Namings
    /\ r_pc = [p \in Invocations |-> "start"]
    /\ r_idx = [p \in Invocations |-> 0]
    /\ r_svg_path = [p \in Invocations |-> NoPath]
    /\ r_content = [p \in Invocations |-> ""]
    /\ r_result = [p \in Invocations |-> <<>>]
    /\ r_stdout = [p \in Invocations |-> <<>>]
    /\ r_exit = [p \in Invocations |-> -1]
    /\ lib_did = [p \in Invocations |-> "none"]
    /\ overlap = FALSE

\* two invocations, each with its own command line
R_Init == R_InitCommon /\ r_argc \in [Invocations -> RenderArgcs]

\* one invocation; the other is never started
R_InitOne ==
    R_InitCommon /\ r_argc \in {[p \in Invocations |-> IF p = 1 THEN a ELSE 4] : a \in RenderArgcs}

\* the renderer is not run
R_Idle ==
    /\ dirs = {}
    /\ files = <<>>
    /\ stale = <<>>
    /\ naming = "dash"
    /\ r_pc = [p \in Invocations |-> "idle"]
    /\ r_argc = [p \in Invocations |-> 4]
    /\ r_idx = [p \in Invocations |-> 0]
    /\ r_svg_path = [p \in Invocations |-> NoPath]
    /\ r_content = [p \in Invocations |-> ""]
    /\ r_result = [p \in Invocations |-> <<>>]
    /\ r_stdout = [p \in Invocations |-> <<>>]
    /\ r_exit = [p \in Invocations |-> -1]
    /\ lib_did = [p \in Invocations |-> "none"]
    /\ overlap = FALSE

\* the except clause of generate_birth_chart_svg
ExceptionResult(text) ==
    [success |-> FALSE, error |-> [kind |-> "exception", text |-> text],
     svg_content |-> None, chart_info |-> NoInfo]

\* generate_birth_chart_svg returns result; main prints it and the process ends
Finish(p, result) ==
    /\ r_result' = [r_result EXCEPT ![p] = Append(@, result)]
    /\ r_stdout' = [r_stdout EXCEPT ![p] = Append(@, result)]
    /\ r_exit' = [r_exit EXCEPT ![p] = 0]
    /\ r_pc' = [r_pc EXCEPT ![p] = "exited"]

Goto(p, label) ==
    /\ r_pc' = [r_pc EXCEPT ![p] = label]
    /\ UNCHANGED <<r_result, r_stdout, r_exit>>

\* main() with len(sys.argv) < 5
R_Usage(p) ==
    /\ r_pc[p] = "start"
    /\ r_argc[p] + 1 < 5
    /\ r_stdout' = [r_stdout EXCEPT ![p] = Append(@, [error |-> "Usage"])]
    /\ r_exit' = [r_exit EXCEPT ![p] = 1]
    /\ r_pc' = [r_pc EXCEPT ![p] = "exited"]
    /\ UNCHANGED <<dirs, files, naming, r_argc, r_idx, r_svg_path, r_content,
                   r_result, lib_did, stale, overlap>>
    /\ UNCHANGED e_vars

\* main() calls generate_birth_chart_svg: strptime, float() and
\* AstrologicalSubject return or raise
R_Subject(p) ==
    /\ r_pc[p] = "start"
    /\ ~(r_argc[p] + 1 < 5)
    /\ \E ok \in BOOLEAN :
          IF ok THEN Goto(p, "exists_temp") ELSE Finish(p, ExceptionResult("subject"))
    /\ Track(p)
    /\ UNCHANGED e_vars
    /\ UNCHANGED <<dirs, files, naming, r_argc, r_idx, r_svg_path, r_content,
                   lib_did, stale>>

\* if not os.path.exists(temp_dir)
R_ExistsTemp(p) ==
    /\ r_pc[p] = "exists_temp"
    /\ IF Temp \notin dirs THEN Goto(p, "makedirs") ELSE Goto(p, "make_svg")
    /\ Track(p)
    /\ UNCHANGED e_vars
    /\ UNCHANGED <<dirs, files, naming, r_argc, r_idx, r_svg_path, r_content,
                   lib_did, stale>>

\* os.makedirs(temp_dir): FileExistsError when the directory is there by now
R_Makedirs(p) ==
    /\ r_pc[p] = "makedirs"
    /\ IF Temp \in dirs
       THEN Finish(p, ExceptionResult("FileExistsError")) /\ dirs' = dirs
       ELSE Goto(p, "make_svg") /\ dirs' = dirs \cup {Temp}
    /\ Track(p)
    /\ UNCHANGED e_vars
    /\ UNCHANGED <<files, naming, r_argc, r_idx, r_svg_path, r_content,
                   lib_did, stale>>

\* KerykeionChartSVG(...) and chart.makeSVG(): the library raises, returns
\* without a file, or writes its file into the output directory (which
\* fails when the directory is not there)
R_MakeSVG(p) ==
    /\ r_pc[p] = "make_svg"
    /\ \E did \in {"raised", "silent", "wrote"} :
          LET d == output_directory(r_argc[p])
              does == IF did = "wrote" /\ d \notin dirs THEN "raised" ELSE did
          IN /\ lib_did' = [lib_did EXCEPT ![p] = does]
             /\ files' = IF does = "wrote"
                         THEN Put(files, <<d, LibFilename(name(r_argc[p]))>>, SvgOf(p))
                         ELSE files
             /\ IF does = "raised"
                THEN Finish(p, ExceptionResult("makeSVG")) /\ r_idx' = r_idx
                ELSE Goto(p, "find") /\ r_idx' = [r_idx EXCEPT ![p] = 1]
    /\ Track(p)
    /\ UNCHANGED e_vars
    /\ UNCHANGED <<dirs, naming, r_argc, r_svg_path, r_content, stale>>

\* one pass of the loop over possible_filenames
R_Find(p) ==
    /\ r_pc[p] = "find"
    /\ LET possible == possible_filenames(name(r_argc[p]))
           test_path == <<output_directory(r_argc[p]), possible[r_idx[p]]>>
       IN IF exists(test_path)
          THEN /\ r_svg_path' = [r_svg_path EXCEPT ![p] = test_path]
               /\ r_idx' = r_idx
               /\ Goto(p, "check")
          ELSE /\ r_svg_path' = r_svg_path
               /\ IF r_idx[p] < Len(possible)
                  THEN r_idx' = [r_idx EXCEPT ![p] = @ + 1] /\ Goto(p, "find")
                  ELSE r_idx' = r_idx /\ Goto(p, "check")
    /\ Track(p)
    /\ UNCHANGED e_vars
    /\ UNCHANGED <<dirs, files, naming, r_argc, r_content, lib_did, stale>>

\* if svg_path and os.path.exists(svg_path)
R_Check(p) ==
    /\ r_pc[p] = "check"
    /\ IF r_svg_path[p] # NoPath /\ exists(r_svg_path[p])
       THEN Goto(p, "read")
       ELSE Goto(p, "exists_dir")
    /\ Track(p)
    /\ UNCHANGED e_vars
    /\ UNCHANGED <<dirs, files, naming, r_argc, r_idx, r_svg_path, r_content,
                   lib_did, stale>>

\* with open(svg_path) as f: svg_content = f.read()
R_Read(p) ==
    /\ r_pc[p] = "read"
    /\ IF exists(r_svg_path[p])
       THEN /\ r_content' = [r_content EXCEPT ![p] = files[r_svg_path[p]]]
            /\ IF output_path(r_argc[p]) = NoPath
               THEN Goto(p, "remove") ELSE Goto(p, "return")
       ELSE /\ r_content' = r_content
            /\ Finish(p, ExceptionResult("FileNotFoundError"))
    /\ Track(p)
    /\ UNCHANGED e_vars
    /\ UNCHANGED <<dirs, files, naming, r_argc, r_idx, r_svg_path, lib_did, stale>>

\* os.remove(svg_path)
R_Remove(p) ==
    /\ r_pc[p] = "remove"
    /\ IF exists(r_svg_path[p])
       THEN files' = Remove(files, r_svg_path[p]) /\ Goto(p, "rmdir")
       ELSE files' = files /\ Finish(p, ExceptionResult("FileNotFoundError"))
    /\ Track(p)
    /\ UNCHANGED e_vars
    /\ UNCHANGED <<dirs, naming, r_argc, r_idx, r_svg_path, r_content, lib_did, stale>>

\* variant: os.rmdir without the try, so a directory that is not empty ends
\* the call
R_Rmdir_Unguarded(p) ==
    /\ r_pc[p] = "rmdir"
    /\ LET d == output_directory(r_argc[p])
       IN IF d \in dirs /\ listdir(d) = {}
          THEN dirs' = dirs \ {d} /\ Goto(p, "return")
          ELSE dirs' = dirs /\ Finish(p, ExceptionResult("OSError"))
    /\ Track(p)
    /\ UNCHANGED e_vars
    /\ UNCHANGED <<files, naming, r_argc, r_idx, r_svg_path, r_content, lib_did, stale>>

\* try: os.rmdir(chart.output_directory) except OSError: pass
R_Rmdir(p) ==
    /\ r_pc[p] = "rmdir"
    /\ LET d == output_directory(r_argc[p])
       IN dirs' = IF d \in dirs /\ listdir(d) = {} THEN dirs \ {d} ELSE dirs
    /\ Goto(p, "return")
    /\ Track(p)
    /\ UNCHANGED e_vars
    /\ UNCHANGED <<files, naming, r_argc, r_idx, r_svg_path, r_content, lib_did, stale>>

\* else branch: if os.path.exists(chart.output_directory)
R_ExistsDir(p) ==
    /\ r_pc[p] = "exists_dir"
    /\ LET d == output_directory(r_argc[p])
       IN IF d \in dirs
          THEN Goto(p, "listdir")
          ELSE Finish(p, [success |-> FALSE,
                          error |-> [kind |-> "Output directory not found", dir |-> d],
                          svg_content |-> None, chart_info |-> NoInfo])
    /\ Track(p)
    /\ UNCHANGED e_vars
    /\ UNCHANGED <<dirs, files, naming, r_argc, r_idx, r_svg_path, r_content,
                   lib_did, stale>>

\* files = os.listdir(chart.output_directory) and the return that follows
R_Listdir(p) ==
    /\ r_pc[p] = "listdir"
    /\ LET d == output_directory(r_argc[p])
       IN IF d \in dirs
          THEN Finish(p, [success |-> FALSE,
                          error |-> [kind |-> "SVG file not found",
                                     files |-> listdir(d),
                                     tried |-> possible_filenames(name(r_argc[p]))],
                          svg_content |-> None, chart_info |-> NoInfo])
          ELSE Finish(p, ExceptionResult("FileNotFoundError"))
    /\ Track(p)
    /\ UNCHANGED e_vars
    /\ UNCHANGED <<dirs, files, naming, r_argc, r_idx, r_svg_path, r_content,
                   lib_did, stale>>

\* chart_info and the final return
R_Return(p) ==
    /\ r_pc[p] = "return"
    /\ Finish(p, [success |-> TRUE,
                  svg_content |-> r_content[p],
                  chart_info |-> [subject_name |-> name(r_argc[p]),
                                  chart_type |-> "Natal"],
                  svg_path |-> IF output_path(r_argc[p]) # NoPath
                               THEN r_svg_path[p] ELSE NoPath])
    /\ Track(p)
    /\ UNCHANGED e_vars
    /\ UNCHANGED <<dirs, files, naming, r_argc, r_idx, r_svg_path, r_content,
                   lib_did, stale>>

RenderStep(p) ==
    \/ R_Usage(p)
    \/ R_Subject(p)
    \/ R_ExistsTemp(p)
    \/ R_Makedirs(p)
    \/ R_MakeSVG(p)
    \/ R_Find(p)
    \/ R_Check(p)
    \/ R_Read(p)
    \/ R_Remove(p)
    \/ R_Rmdir(p)
    \/ R_ExistsDir(p)
    \/ R_Listdir(p)
    \/ R_Return(p)

NextRender == \E p \in Invocations : RenderStep(p)

NextRenderOne == RenderStep(1)

(***************************************************************************)
(* Specifications                                                          *)
(***************************************************************************)
\* one run of the extractor
InitChart == E_Init /\ R_Idle

SpecChart == InitChart /\ [][NextChart]_vars

\* one run of the renderer
InitRenderOne == E_Idle /\ R_InitOne

SpecRenderOne == InitRenderOne /\ [][NextRenderOne]_vars

\* two runs of the renderer sharing the file system
InitRender == E_Idle /\ R_Init

SpecRender == InitRender /\ [][NextRender]_vars

(***************************************************************************)
(* Properties of the chart data extractor (checked under SpecChart)        *)
(***************************************************************************)
\* calculate_chart was called and returned this value
Returned == e_pc = "exited" /\ e_result # <<>>

ChartReturned == Returned /\ "error" \notin DOMAIN e_result[1]

\* one of the steps before the aspect loop fails during the call
StepFails ==
    \/ ~strptime_ok(e_date)
    \/ ~natal.subject_ok
    \/ ~natal.natal_ok
    \/ \E i \in DOMAIN natal.objects : ~natal.objects[i].ok
    \/ \E i \in DOMAIN natal.houses : ~natal.houses[i].ok

\* an aspect of the library that has all the attributes the copy reads
WellFormed(a) ==
    /\ a.active \notin {NoAttr, NoName}
    /\ a.passive \notin {NoAttr, NoName}
    /\ a.aspect \notin {NoAttr, NoName}
    /\ a.orb.kind # "bad"

StrengthRank(s) == CASE s = "strong" -> 3 [] s = "moderate" -> 2 [] s = "weak" -> 1

\* C1: every aspect record of a returned chart is "strong" exactly when its
\* orb is <= 2, "moderate" exactly when 2 < orb <= 4 and "weak" exactly when
\* orb > 4; a larger orb never has a stronger bucket; an aspect without an
\* orb attribute is recorded with orb 0 and is "strong".
C1_StrengthBuckets ==
    ChartReturned =>
        LET out == e_result[1].aspects
            kept == SelectSeq(natal.aspects, WellFormed)
        IN /\ \A i \in DOMAIN out :
                /\ out[i].strength \in {"strong", "moderate", "weak"}
                /\ (out[i].strength = "strong") <=> (out[i].orb <= 2)
                /\ (out[i].strength = "moderate") <=> (2 < out[i].orb /\ out[i].orb <= 4)
                /\ (out[i].strength = "weak") <=> (out[i].orb > 4)
           /\ \A i, j \in DOMAIN out :
                out[i].orb <= out[j].orb
                    => StrengthRank(out[i].strength) >= StrengthRank(out[j].strength)
           /\ \A i \in (DOMAIN out) \cap (DOMAIN kept) :
                kept[i].orb.kind = "none"
                    => out[i].orb = 0 /\ out[i].strength = "strong"

\* a chart with an aspect at each threshold side: orb 4 and orb 5
C1_Witness ==
    /\ ChartReturned
    /\ Len(e_result[1].aspects) = 2
    /\ e_result[1].aspects[1].orb = 4
    /\ e_result[1].aspects[1].strength = "moderate"
    /\ e_result[1].aspects[2].orb = 5
    /\ e_result[1].aspects[2].strength = "weak"

ZodiacSigns ==
    {"Aries", "Taurus", "Gemini", "Cancer", "Leo", "Virgo", "Libra", "Scorpio",
     "Sagittarius", "Capricorn", "Aquarius", "Pisces"}

Elements == {"fire", "earth", "air", "water"}

Modalities == {"cardinal", "fixed", "mutable"}

RECURSIVE SumOver(_, _)
SumOver(f, S) ==
    IF S = {} THEN 0
    ELSE LET x == CHOOSE y \in S : TRUE IN f[x] + SumOver(f, S \ {x})

\* C2: in a returned chart the element counts and the modality counts each
\* sum to the number of planet records whose sign is a zodiac sign, and the
\* tables give each of the 12 signs one element (3 signs each) and one
\* modality (4 signs each).
C2_BalanceSums ==
    /\ DOMAIN element_map = ZodiacSigns
    /\ DOMAIN modality_map = ZodiacSigns
    /\ \A e \in Elements : Cardinality({s \in ZodiacSigns : element_map[s] = e}) = 3
    /\ \A m \in Modalities : Cardinality({s \in ZodiacSigns : modality_map[s] = m}) = 4
    /\ ChartReturned =>
        LET chart == e_result[1]
            classified == {n \in DOMAIN chart.planets :
                              chart.planets[n].sign \in ZodiacSigns}
        IN /\ DOMAIN chart.elementBalance = Elements
           /\ DOMAIN chart.modalityBalance = Modalities
           /\ SumOver(chart.elementBalance, Elements) = Cardinality(classified)
           /\ SumOver(chart.modalityBalance, Modalities) = Cardinality(classified)

\* a chart with two planet records, one of them outside the zodiac
C2_Witness ==
    /\ ChartReturned
    /\ Cardinality(DOMAIN e_result[1].planets) = 2
    /\ Cardinality({n \in DOMAIN e_result[1].planets :
                        e_result[1].planets[n].sign \in ZodiacSigns}) = 1
    /\ SumOver(e_result[1].elementBalance, Elements) = 1

\* C3: when no other step fails, the call returns a chart whose aspects are
\* exactly the well-formed aspects of the library, in their order and with
\* all six fields; malformed aspects leave nothing behind.
C3_MalformedAspectsSkipped ==
    (Returned /\ ~StepFails) =>
        /\ "error" \notin DOMAIN e_result[1]
        /\ LET out == e_result[1].aspects
               kept == SelectSeq(natal.aspects, WellFormed)
           IN /\ Len(out) = Len(kept)
              /\ \A i \in DOMAIN out :
                    /\ DOMAIN out[i] =
                         {"planet1", "planet2", "aspect", "orb", "applying", "strength"}
                    /\ out[i].planet1 = kept[i].active
                    /\ out[i].planet2 = kept[i].passive
                    /\ out[i].aspect = kept[i].aspect
                    /\ out[i].orb = IF kept[i].orb.kind = "num" THEN kept[i].orb.val ELSE 0

\* a malformed aspect followed by a well-formed one: only the second is kept
C3_Witness ==
    /\ ChartReturned
    /\ Len(natal.aspects) = 2
    /\ ~WellFormed(natal.aspects[1])
    /\ WellFormed(natal.aspects[2])
    /\ Len(e_result[1].aspects) = 1
    /\ e_result[1].aspects[1].planet1 = natal.aspects[2].active

\* C4: a call of calculate_chart always returns; when a step fails the value
\* returned has the single key "error", whichever step it was, and when no
\* step fails it has no "error" key.
C4_ErrorsAreErrorMappings ==
    /\ (e_pc = "exited" /\ ~WrongArgCount(e_argc)) => Len(e_result) = 1
    /\ Returned =>
        /\ StepFails => DOMAIN e_result[1] = {"error"}
        /\ ~StepFails => "error" \notin DOMAIN e_result[1]

\* a house fails to copy after a planet was copied: only "error" is returned
C4_Witness ==
    /\ Returned
    /\ Len(natal.objects) = 1
    /\ natal.objects[1].ok
    /\ Len(natal.houses) = 1
    /\ ~natal.houses[1].ok
    /\ DOMAIN e_result[1] = {"error"}

IsUsage(doc) == "error" \in DOMAIN doc /\ doc.error = "Usage"

\* C5: with an argument count other than 4 the extractor prints the usage
\* error to standard output, exits with 1 and never calls calculate_chart or
\* the library; with 4 arguments no usage error is printed.
C5_UsageError ==
    e_pc = "exited" =>
        /\ e_argc # 4 =>
              /\ Len(e_stdout) = 1
              /\ IsUsage(e_stdout[1])
              /\ e_stderr = <<>>
              /\ e_exit = 1
              /\ e_result = <<>>
              /\ natal = NoNatal
        /\ e_argc = 4 =>
              /\ \A i \in DOMAIN e_stdout : ~IsUsage(e_stdout[i])
              /\ \A i \in DOMAIN e_stderr : ~IsUsage(e_stderr[i])

\* five arguments: one more than the program takes
C5_Witness ==
    /\ e_pc = "exited"
    /\ e_argc = 5
    /\ e_exit = 1
    /\ Len(e_stdout) = 1
    /\ IsUsage(e_stdout[1])

\* C6: with a valid argument count, a computation that fails ends the
\* process with exit code 1 and the error on standard error; exit code 0
\* with a document on standard output happens only when it succeeded.
C6_FailureExitsOne ==
    (e_pc = "exited" /\ e_argc = 4) =>
        /\ StepFails => (e_exit = 1 /\ e_stderr # <<>> /\ e_stdout = <<>>)
        /\ (e_exit = 0 /\ e_stdout # <<>>) => ~StepFails

ClaimPoints(s) == CASE s = "strong" -> 3 [] s = "moderate" -> 2 [] s = "weak" -> 1

RECURSIVE ClaimScore(_, _, _)
ClaimScore(planet, aspects, i) ==
    IF i > Len(aspects) THEN 0
    ELSE (IF planet \in {aspects[i].planet1, aspects[i].planet2}
          THEN ClaimPoints(aspects[i].strength) ELSE 0)
         + ClaimScore(planet, aspects, i + 1)

\* C8: the dominantPlanet of a returned chart has the largest score, the
\* score of a planet being the sum of 3, 2 or 1 over the output aspects it
\* is an endpoint of; without output aspects it is "Sun".
C8_DominantPlanetHasMaxScore ==
    ChartReturned =>
        LET chart == e_result[1]
        IN IF chart.aspects = <<>>
           THEN chart.dominantPlanet = "Sun"
           ELSE /\ chart.dominantPlanet \in AspectPlanets
                /\ \A q \in AspectPlanets :
                      ClaimScore(q, chart.aspects, 1)
                          <= ClaimScore(chart.dominantPlanet, chart.aspects, 1)

\* a weak aspect listed before a strong one between two other planets: the
\* dominant planet is not the first one scored
C8_Witness ==
    /\ ChartReturned
    /\ Len(e_result[1].aspects) = 2
    /\ e_result[1].aspects[1].strength = "weak"
    /\ e_result[1].aspects[1].planet1 = "Sun"
    /\ e_result[1].aspects[2].strength = "strong"
    /\ e_result[1].aspects[2].planet1 = "Mars"
    /\ e_result[1].dominantPlanet = "Mars"

(***************************************************************************)
(* Properties of the SVG renderer                                          *)
(***************************************************************************)
\* the four file names the renderer looks for, in the order it tries them
GuessedNames(nm) ==
    <<<<nm, " - Natal Chart.svg">>, <<nm, "_Natal_Chart.svg">>,
      <<nm, " Natal Chart.svg">>, <<"", "Natal Chart.svg">>>>

\* the path invocation p's makeSVG call wrote
WrittenPath(p) == <<output_directory(r_argc[p]), LibFilename(name(r_argc[p]))>>

\* with one invocation only: the files present when its search ran, and
\* their content
PresentAtFind(p) ==
    (DOMAIN stale) \cup (IF lib_did[p] = "wrote" THEN {WrittenPath(p)} ELSE {})

ContentAtFind(p, path) ==
    IF lib_did[p] = "wrote" /\ path = WrittenPath(p) THEN SvgOf(p) ELSE stale[path]

FoundGuesses(p) ==
    {i \in 1..4 :
        <<output_directory(r_argc[p]), GuessedNames(name(r_argc[p]))[i]>>
            \in PresentAtFind(p)}

Least(S) == CHOOSE i \in S : \A j \in S : i <= j

RenderReturned(p) == r_pc[p] = "exited" /\ r_result[p] # <<>>

\* C7 (one invocation): when makeSVG returned and none of the four guessed
\* names exists, the call returns success = FALSE without content or chart
\* info, the error listing the files of the output directory when it exists
\* and naming the missing directory otherwise; success = TRUE is returned
\* only with the first existing guess, in guess order, found and read.
C7_NotFoundIsReported ==
    RenderReturned(1) =>
        LET r == r_result[1][1]
            d == output_directory(r_argc[1])
        IN /\ r_exit[1] = 0
           /\ (lib_did[1] \in {"silent", "wrote"} /\ FoundGuesses(1) = {}) =>
                /\ r.success = FALSE
                /\ r.svg_content = None
                /\ r.chart_info = NoInfo
                /\ IF d \in dirs
                   THEN /\ r.error.kind = "SVG file not found"
                        /\ r.error.files = listdir(d)
                   ELSE r.error.kind = "Output directory not found"
           /\ r.success =>
                /\ FoundGuesses(1) # {}
                /\ r_svg_path[1] =
                     <<d, GuessedNames(name(r_argc[1]))[Least(FoundGuesses(1))]>>
                /\ r.svg_content = ContentAtFind(1, r_svg_path[1])

\* the library wrote its file under a name that is not guessed: the call
\* fails and lists that file
C7_Witness ==
    /\ RenderReturned(1)
    /\ lib_did[1] = "wrote"
    /\ naming = "other"
    /\ FoundGuesses(1) = {}
    /\ r_result[1][1].success = FALSE
    /\ r_result[1][1].error.kind = "SVG file not found"
    /\ r_result[1][1].error.files = {LibFilename(name(r_argc[1]))}

\* C9 (one invocation): after a successful call without output_path the
\* file read is gone, svg_path is None and temp_charts is gone unless files
\* remain in it; with an output_path the file is still there and svg_path
\* names it; either way svg_content is what the file held when it was read.
C9_TempFileRemoved ==
    (RenderReturned(1) /\ r_result[1][1].success) =>
        LET r == r_result[1][1]
            d == output_directory(r_argc[1])
        IN /\ r_svg_path[1] # NoPath
           /\ r.svg_content = ContentAtFind(1, r_svg_path[1])
           /\ IF output_path(r_argc[1]) = NoPath
              THEN /\ ~exists(r_svg_path[1])
                   /\ r.svg_path = NoPath
                   /\ d \in dirs => listdir(d) # {}
              ELSE /\ exists(r_svg_path[1])
                   /\ r.svg_path = r_svg_path[1]
                   /\ files[r_svg_path[1]] = r.svg_content

\* a successful call without output_path that created temp_charts and
\* removed it again
C9_Witness ==
    /\ RenderReturned(1)
    /\ r_result[1][1].success
    /\ output_path(r_argc[1]) = NoPath
    /\ r_result[1][1].svg_content = SvgOf(1)
    /\ Temp \notin dirs
    /\ files = <<>>

\* both invocations draw a chart of the same name without output_path, and
\* the library wrote each one's file under a guessed name
SameChartBothWritten ==
    /\ \A p \in Invocations : r_pc[p] = "exited" /\ r_result[p] # <<>>
    /\ r_argc[1] = r_argc[2]
    /\ output_path(r_argc[1]) = NoPath
    /\ \A p \in Invocations : lib_did[p] = "wrote"
    /\ naming \in {"dash", "plain"}

\* C10 (two invocations): run one after the other, both invocations return
\* success = TRUE with their own SVG; run concurrently they can collide
\* (the collision is the state C10_Collision).
C10_SequentialRunsSucceed ==
    (SameChartBothWritten /\ ~overlap) =>
        \A p \in Invocations :
            /\ r_result[p][1].success
            /\ r_result[p][1].svg_content = SvgOf(p)

\* an interleaving after which invocation 1 returned the SVG that
\* invocation 2 wrote, and invocation 2 failed although its library call
\* wrote the file
C10_Collision ==
    /\ SameChartBothWritten
    /\ overlap
    /\ r_result[1][1].success
    /\ r_result[1][1].svg_content = SvgOf(2)
    /\ r_result[2][1].success = FALSE

====
